---- MODULE Spec2Model ----
(***************************************************************************)
(* A model of stats.py: per-condition statistics of behavioural trials.    *)
(*                                                                         *)
(* Four specifications share the module:                                  *)
(*   SpecTrial      calculate_trial_metrics applied to bounded tables;     *)
(*   SpecCondition  analyze_condition applied to bounded directories;      *)
(*   Spec           a whole run of the script (__main__), from the argv    *)
(*                  check to the third chart;                              *)
(*   SpecCharts     generate_graphs applied to bounded summary mappings.   *)
(*                                                                         *)
(* Floating-point values are modelled as exact rationals plus one          *)
(* distinguished not-a-number value that propagates as IEEE NaN does.      *)
(***************************************************************************)
EXTENDS Integers, Sequences, FiniteSets

VARIABLES
    df,                  \* calculate_trial_metrics: the trial table
    metrics,             \* calculate_trial_metrics: its returned dict
    dir_files,           \* analyze_condition: the directory's listing
    summary,             \* analyze_condition: its outcome
    argc,                \* len(sys.argv)
    fs,                  \* the root directory on disk
    pc,                  \* position of the run in __main__
    conditions,          \* get_condition_summaries: conditions
    condition_summaries, \* get_condition_summaries: condition_summaries
    summaries,           \* __main__: summaries (an ordered dict)
    stdout,              \* what the run has printed
    charts,              \* the chart files written, in order
    error,               \* the exception that ended the run, if any
    exit_status          \* the process's exit status once it has ended

vars == <<df, metrics, dir_files, summary, argc, fs, pc, conditions,
          condition_summaries, summaries, stdout, charts, error, exit_status>>

(***************************************************************************)
(* Numbers: a float is [nan, num, den], a reduced fraction or NaN.         *)
(***************************************************************************)
Abs(n) == IF n < 0 THEN -n ELSE n

RECURSIVE GCD(_, _)
GCD(a, b) == IF b = 0 THEN a ELSE GCD(b, a % b)

NaN == [nan |-> TRUE, num |-> 0, den |-> 1]

Rat(n, d) ==
    LET g == GCD(Abs(n), d)
    IN  [nan |-> FALSE, num |-> n \div g, den |-> d \div g]

Float(n) == Rat(n, 1)

\* a + b on floats
FAdd(a, b) ==
    IF a.nan \/ b.nan THEN NaN
    ELSE Rat(a.num * b.den + b.num * a.den, a.den * b.den)

\* a / n for a float a and a positive integer n
FDivInt(a, n) == IF a.nan THEN NaN ELSE Rat(a.num, a.den * n)

\* a > b on floats: every comparison with NaN is False
FGt(a, b) == ~a.nan /\ ~b.nan /\ a.num * b.den > b.num * a.den

(***************************************************************************)
(* Trial tables.  Only the three columns the program reads are kept.       *)
(***************************************************************************)
RT_MIN == 100
RT_MAX == 500

MaxRows == 3

\* the values around the two ends of the valid window
RTValues == {99, 100, 500, 501}
CountValues == {0, 1}

Row(rt, c, l) == [RT |-> rt, Commissions |-> c, Lapses |-> l]

TrialRows == {Row(rt, c, l) : rt \in RTValues, c \in CountValues, l \in CountValues}

RECURSIVE SeqsUpTo(_, _)
SeqsUpTo(S, n) ==
    IF n = 0 THEN {<<>>}
    ELSE LET shorter == SeqsUpTo(S, n - 1)
         IN  shorter \cup {Append(s, x) : s \in {t \in shorter : Len(t) = n - 1}, x \in S}

Tables == SeqsUpTo(TrialRows, MaxRows)

\* the worked examples: RT = [90, 150, 450, 600], Commissions = [1, 2, 0, 3]
ExampleTable == <<Row(90, 1, 0), Row(150, 2, 1), Row(450, 0, 0), Row(600, 3, 2)>>

RECURSIVE SumSeq(_)
SumSeq(s) == IF s = <<>> THEN 0 ELSE Head(s) + SumSeq(Tail(s))

Column(table, name) == [i \in 1..Len(table) |-> table[i][name]]

\* the filter with both ends excluded
ValidRowExclusive(r) == r.RT > RT_MIN /\ r.RT < RT_MAX

\* df["RT"][(df["RT"] >= 100) & (df["RT"] <= 500)]
ValidRow(r) == r.RT >= RT_MIN /\ r.RT <= RT_MAX

valid_rts(table) == Column(SelectSeq(table, ValidRow), "RT")

\* a mean that defaults to 0 for an empty series
SeriesMeanOrZero(s) == IF Len(s) = 0 THEN Float(0) ELSE Rat(SumSeq(s), Len(s))

\* Series.mean(): NaN for an empty series
SeriesMean(s) == IF Len(s) = 0 THEN NaN ELSE Rat(SumSeq(s), Len(s))

\* the totals taken over the filtered rows, like the mean
calculate_trial_metrics_filtered(table) ==
    [mean_rt           |-> SeriesMean(valid_rts(table)),
     total_commissions |-> SumSeq(Column(SelectSeq(table, ValidRow), "Commissions")),
     total_lapses      |-> SumSeq(Column(SelectSeq(table, ValidRow), "Lapses"))]

calculate_trial_metrics(table) ==
    [mean_rt           |-> SeriesMean(valid_rts(table)),
     total_commissions |-> SumSeq(Column(table, "Commissions")),
     total_lapses      |-> SumSeq(Column(table, "Lapses"))]

(***************************************************************************)
(* Condition directories: a listing of files, in os.listdir order.         *)
(***************************************************************************)
MaxFiles == 3

TxtFile(rows) == [txt |-> TRUE, parses |-> TRUE, rows |-> rows]

TrialA == TxtFile(<<Row(150, 1, 0), Row(450, 0, 0)>>)
TrialB == TxtFile(<<Row(99, 1, 1), Row(501, 2, 0)>>)
TrialC == TxtFile(<<Row(100, 0, 1), Row(501, 1, 1), Row(180, 2, 0)>>)
TrialD == TxtFile(<<Row(333, 0, 0)>>)
TrialE == TxtFile(<<Row(600, 0, 2)>>)
\* a .txt file that pd.read_csv rejects (ragged or non-numeric rows)
Malformed == [txt |-> TRUE, parses |-> FALSE, rows |-> <<>>]
\* a file whose name does not end with "txt"
Notes == [txt |-> FALSE, parses |-> FALSE, rows |-> <<>>]

SampleFiles == {TrialA, TrialB, TrialC, TrialD, TrialE, Malformed, Notes}

Directories == SeqsUpTo(SampleFiles, MaxFiles)

IsTxt(f) == f.txt

list_data_files(dir) == SelectSeq(dir, IsTxt)

\* sum(xs) of floats: a left fold from the integer 0
RECURSIVE FSum(_)
FSum(s) ==
    IF s = <<>> THEN Float(0)
    ELSE FAdd(FSum(SubSeq(s, 1, Len(s) - 1)), s[Len(s)])

ZeroSummary ==
    [mean_of_means     |-> Float(0),
     total_commissions |-> 0,
     mean_commissions  |-> Float(0),
     total_lapses      |-> 0,
     mean_lapses       |-> Float(0)]

Unparsable(f) == ~f.parses

\* mean_lapses computed from the commissions list
analyze_condition_copied(dir) ==
    LET files             == list_data_files(dir)
        n                 == Len(files)
        trial_metrics     == [i \in 1..n |-> calculate_trial_metrics(files[i].rows)]
        trial_means       == [i \in 1..n |-> trial_metrics[i].mean_rt]
        trial_commissions == [i \in 1..n |-> trial_metrics[i].total_commissions]
        trial_lapses      == [i \in 1..n |-> trial_metrics[i].total_lapses]
    IN  IF SelectSeq(files, Unparsable) # <<>>
        THEN [raised |-> "ParserError", value |-> ZeroSummary]
        ELSE [raised |-> "",
              value  |->
                [mean_of_means     |-> IF n # 0 THEN FDivInt(FSum(trial_means), n)
                                       ELSE Float(0),
                 total_commissions |-> SumSeq(trial_commissions),
                 mean_commissions  |-> IF n # 0 THEN Rat(SumSeq(trial_commissions), n)
                                       ELSE Float(0),
                 total_lapses      |-> SumSeq(trial_lapses),
                 mean_lapses       |-> IF n # 0 THEN Rat(SumSeq(trial_commissions), n)
                                       ELSE Float(0)]]

\* the outcome of analyze_condition(dir): a summary, or the exception that
\* read_trial_data raised on the first file it could not parse
analyze_condition(dir) ==
    LET files             == list_data_files(dir)
        n                 == Len(files)
        trial_metrics     == [i \in 1..n |-> calculate_trial_metrics(files[i].rows)]
        trial_means       == [i \in 1..n |-> trial_metrics[i].mean_rt]
        trial_commissions == [i \in 1..n |-> trial_metrics[i].total_commissions]
        trial_lapses      == [i \in 1..n |-> trial_metrics[i].total_lapses]
    IN  IF SelectSeq(files, Unparsable) # <<>>
        THEN [raised |-> "ParserError", value |-> ZeroSummary]
        ELSE [raised |-> "",
              value  |->
                [mean_of_means     |-> IF n # 0 THEN FDivInt(FSum(trial_means), n)
                                       ELSE Float(0),
                 total_commissions |-> SumSeq(trial_commissions),
                 mean_commissions  |-> IF n # 0 THEN Rat(SumSeq(trial_commissions), n)
                                       ELSE Float(0),
                 total_lapses      |-> SumSeq(trial_lapses),
                 mean_lapses       |-> IF n # 0 THEN Rat(SumSeq(trial_lapses), n)
                                       ELSE Float(0)]]

(***************************************************************************)
(* The root directory and the condition suite.                             *)
(***************************************************************************)
condition_keys == <<"a1", "b1", "a2", "b2">>

Canonical == {condition_keys[i] : i \in 1..Len(condition_keys)}

\* names an entry of the root directory may have: the canonical four and one other
Names == Canonical \cup {"x"}

DirContents == {<<>>, <<TrialA, Notes>>, <<TrialB, TrialC>>, <<TrialD, Malformed>>}

Absent == [kind |-> "absent", files |-> <<>>]
PlainFile == [kind |-> "file", files |-> <<>>]
Dir(files) == [kind |-> "dir", files |-> files]

Entries == {Absent, PlainFile} \cup {Dir(c) : c \in DirContents}

NoRoot == [exists |-> FALSE, entries |-> [n \in Names |-> Absent]]

FileSystems == {NoRoot} \cup {[exists |-> TRUE, entries |-> e] : e \in [Names -> Entries]}

\* the names list_subdirs keeps: os.path.isdir
SubdirNames(root) == {n \in Names : root.entries[n].kind = "dir"}

\* every order os.listdir may return them in
Listings(S) ==
    {s \in [1..Cardinality(S) -> S] : \A i, j \in 1..Cardinality(S) : s[i] = s[j] => i = j}

\* a lookup that puts an unknown name after the known ones
IndexOrLast(x) ==
    IF x \in Canonical THEN CHOOSE i \in 1..Len(condition_keys) : condition_keys[i] = x
    ELSE Len(condition_keys) + 1

\* condition_keys.index(x), 0 standing for the ValueError
Index(x) ==
    IF x \in Canonical THEN CHOOSE i \in 1..Len(condition_keys) : condition_keys[i] = x
    ELSE 0

RECURSIVE Insert(_, _)
Insert(sorted, x) ==
    IF sorted = <<>> THEN <<x>>
    ELSE IF Index(x) < Index(Head(sorted)) THEN <<x>> \o sorted
    ELSE <<Head(sorted)>> \o Insert(Tail(sorted), x)

\* the listing left in disk order
Unsorted(s) == s

\* sorted(conditions, key = lambda x: condition_keys.index(x)): a stable sort
RECURSIVE SortedByIndex(_)
SortedByIndex(s) ==
    IF s = <<>> THEN <<>>
    ELSE Insert(SortedByIndex(SubSeq(s, 1, Len(s) - 1)), s[Len(s)])

Min(a, b) == IF a < b THEN a ELSE b

\* dict(zip(keys, values)): as long as the shorter of the two
Zip(keys, values) ==
    [i \in 1..Min(Len(keys), Len(values)) |-> [key |-> keys[i], value |-> values[i]]]

NoSummaries == [returned |-> FALSE, items |-> <<>>]

(***************************************************************************)
(* Charts.                                                                 *)
(***************************************************************************)
RT_HEADROOM == 50
COUNT_HEADROOM == 1

\* max(xs) as Python computes it: keep the first, replace it by a later
\* element only when that element compares greater
RECURSIVE PyMaxFrom(_, _)
PyMaxFrom(best, rest) ==
    IF rest = <<>> THEN best
    ELSE PyMaxFrom(IF FGt(Head(rest), best) THEN Head(rest) ELSE best, Tail(rest))

PyMax(s) == PyMaxFrom(Head(s), Tail(s))

Metric(items, field) == [i \in 1..Len(items) |-> items[i].value[field]]

Keys(items) == [i \in 1..Len(items) |-> items[i].key]

\* the axis ending at the tallest bar
YLimTopNoHeadroom(values, headroom) == PyMax(values)

\* plt.ylim(0, max(values) + headroom)
YLimTop(values, headroom) == FAdd(PyMax(values), Float(headroom))

NoError == [type |-> "", at |-> ""]

(***************************************************************************)
(* SpecTrial: calculate_trial_metrics on every bounded table.              *)
(***************************************************************************)
NoMetrics ==
    [done  |-> FALSE,
     value |-> [mean_rt |-> NaN, total_commissions |-> 0, total_lapses |-> 0]]

Returned(m) == [done |-> TRUE, value |-> m]

NoSummary == [state |-> "pending", raised |-> "", value |-> ZeroSummary]

\* the variables of a whole run, while a single function is exercised
RunIdle ==
    /\ argc = 2
    /\ fs = NoRoot
    /\ pc = "idle"
    /\ conditions = <<>>
    /\ condition_summaries = <<>>
    /\ summaries = NoSummaries
    /\ stdout = <<>>
    /\ charts = <<>>
    /\ error = NoError
    /\ exit_status = -1

RunVars == <<argc, fs, pc, conditions, condition_summaries, summaries, stdout,
             charts, error, exit_status>>

InitTrial ==
    /\ df \in Tables \cup {ExampleTable}
    /\ metrics = NoMetrics
    /\ dir_files = <<>>
    /\ summary = NoSummary
    /\ RunIdle

CalculateTrialMetrics ==
    /\ ~metrics.done
    /\ metrics' = Returned(calculate_trial_metrics(df))
    /\ UNCHANGED <<df, dir_files, summary, RunVars>>

\* the same call on a table that differs from df in one row's RT only
RecalculateWithRT ==
    /\ metrics.done
    /\ \E i \in 1..Len(df), rt \in RTValues :
          /\ rt # df[i].RT
          /\ df' = [df EXCEPT ![i].RT = rt]
    /\ metrics' = Returned(calculate_trial_metrics(df'))
    /\ UNCHANGED <<dir_files, summary, RunVars>>

NextTrial == CalculateTrialMetrics \/ RecalculateWithRT

SpecTrial == InitTrial /\ [][NextTrial]_vars

(***************************************************************************)
(* SpecCondition: analyze_condition on every bounded directory.            *)
(***************************************************************************)
InitCondition ==
    /\ df = <<>>
    /\ metrics = NoMetrics
    /\ dir_files \in Directories
    /\ summary = NoSummary
    /\ RunIdle

AnalyzeCondition ==
    /\ summary.state = "pending"
    /\ LET r == analyze_condition(dir_files)
       IN  summary' = [state  |-> IF r.raised = "" THEN "returned" ELSE "raised",
                       raised |-> r.raised,
                       value  |-> r.value]
    /\ UNCHANGED <<df, metrics, dir_files, RunVars>>

NextCondition == AnalyzeCondition

SpecCondition == InitCondition /\ [][NextCondition]_vars

(***************************************************************************)
(* Spec: a run of the script.                                              *)
(***************************************************************************)
FunctionVars == <<df, metrics, dir_files, summary>>

FunctionsIdle ==
    /\ df = <<>>
    /\ metrics = NoMetrics
    /\ dir_files = <<>>
    /\ summary = NoSummary

Init ==
    /\ FunctionsIdle
    /\ argc \in {1, 2}
    /\ fs \in FileSystems
    /\ pc = "main"
    /\ conditions = <<>>
    /\ condition_summaries = <<>>
    /\ summaries = NoSummaries
    /\ stdout = <<>>
    /\ charts = <<>>
    /\ error = NoError
    /\ exit_status = -1

\* an exception leaves the current function; nothing in the script catches it
Raise(type, at) ==
    /\ pc' = "raised"
    /\ error' = [type |-> type, at |-> at]

\* if len(sys.argv) < 2: print usage; sys.exit()
Main ==
    /\ pc = "main"
    /\ IF argc < 2
       THEN /\ stdout' = Append(stdout, "usage")
            /\ pc' = "exited"
            /\ exit_status' = 0
       ELSE /\ pc' = "list_subdirs"
            /\ UNCHANGED <<stdout, exit_status>>
    /\ UNCHANGED <<FunctionVars, argc, fs, conditions, condition_summaries,
                   summaries, charts, error>>

\* conditions = list_subdirs(dir)
ListSubdirs ==
    /\ pc = "list_subdirs"
    /\ IF ~fs.exists
       THEN /\ Raise("FileNotFoundError", "list_subdirs")
            /\ UNCHANGED conditions
       ELSE /\ conditions' \in Listings(SubdirNames(fs))
            /\ pc' = "sort"
            /\ UNCHANGED error
    /\ UNCHANGED <<FunctionVars, argc, fs, condition_summaries, summaries,
                   stdout, charts, exit_status>>

\* conditions = sorted(conditions, key = ...): the key function is called on
\* every element before any is moved
SortConditions ==
    /\ pc = "sort"
    /\ IF \E i \in 1..Len(conditions) : Index(conditions[i]) = 0
       THEN /\ Raise("ValueError", "sort")
            /\ UNCHANGED conditions
       ELSE /\ conditions' = SortedByIndex(conditions)
            /\ pc' = "analyze"
            /\ UNCHANGED error
    /\ UNCHANGED <<FunctionVars, argc, fs, condition_summaries, summaries,
                   stdout, charts, exit_status>>

\* one iteration of: for condition in conditions
AnalyzeNext ==
    /\ pc = "analyze"
    /\ Len(condition_summaries) < Len(conditions)
    /\ LET condition == conditions[Len(condition_summaries) + 1]
           r         == analyze_condition(fs.entries[condition].files)
       IN  IF r.raised # ""
           THEN /\ Raise(r.raised, "analyze_condition")
                /\ UNCHANGED condition_summaries
           ELSE /\ condition_summaries' = Append(condition_summaries, r.value)
                /\ UNCHANGED <<pc, error>>
    /\ UNCHANGED <<FunctionVars, argc, fs, conditions, summaries, stdout, charts,
                   exit_status>>

\* the summaries bound to the names of the directories they come from
ReturnSummariesByName ==
    /\ pc = "analyze"
    /\ Len(condition_summaries) = Len(conditions)
    /\ summaries' = [returned |-> TRUE, items |-> Zip(conditions, condition_summaries)]
    /\ pc' = "print"
    /\ UNCHANGED <<FunctionVars, argc, fs, conditions, condition_summaries, stdout,
                   charts, error, exit_status>>

\* return dict(zip(condition_keys, condition_summaries))
ReturnSummaries ==
    /\ pc = "analyze"
    /\ Len(condition_summaries) = Len(conditions)
    /\ summaries' = [returned |-> TRUE, items |-> Zip(condition_keys, condition_summaries)]
    /\ pc' = "print"
    /\ UNCHANGED <<FunctionVars, argc, fs, conditions, condition_summaries, stdout,
                   charts, error, exit_status>>

\* print(summaries)
PrintSummaries ==
    /\ pc = "print"
    /\ stdout' = Append(stdout, "summaries")
    /\ pc' = "plot_rt_bar"
    /\ UNCHANGED <<FunctionVars, argc, fs, conditions, condition_summaries, summaries,
                   charts, error, exit_status>>

\* a renderer that notes a failed chart and goes on to the next one
PlotBarKeepGoing(at, field, headroom, file, next) ==
    /\ pc = at
    /\ pc' = next
    /\ LET values == Metric(summaries.items, field)
       IN  IF Len(values) = 0 \/ YLimTop(values, headroom).nan
           THEN /\ error' = [type |-> "ValueError", at |-> at]
                /\ UNCHANGED charts
           ELSE \/ /\ charts' = Append(charts, [file   |-> file,
                                                labels |-> Keys(summaries.items),
                                                ylim   |-> YLimTop(values, headroom)])
                   /\ UNCHANGED error
                \/ /\ error' = [type |-> "OSError", at |-> at]
                   /\ UNCHANGED charts
    /\ UNCHANGED <<FunctionVars, argc, fs, conditions, condition_summaries, summaries,
                   stdout, exit_status>>

\* one plot_*_bar: max() of an empty list and a NaN axis limit raise
\* ValueError; savefig may fail on the disk
PlotBar(at, field, headroom, file, next) ==
    /\ pc = at
    /\ LET values == Metric(summaries.items, field)
       IN  IF Len(values) = 0 \/ YLimTop(values, headroom).nan
           THEN /\ Raise("ValueError", at)
                /\ UNCHANGED charts
           ELSE \/ /\ charts' = Append(charts, [file   |-> file,
                                                labels |-> Keys(summaries.items),
                                                ylim   |-> YLimTop(values, headroom)])
                   /\ pc' = next
                   /\ UNCHANGED error
                \/ /\ Raise("OSError", at)
                   /\ UNCHANGED charts
    /\ UNCHANGED <<FunctionVars, argc, fs, conditions, condition_summaries, summaries,
                   stdout, exit_status>>

PlotRtBar ==
    PlotBar("plot_rt_bar", "mean_of_means", RT_HEADROOM, "mean_rts.png",
            "plot_commission_bar")

PlotCommissionBar ==
    PlotBar("plot_commission_bar", "mean_commissions", COUNT_HEADROOM,
            "mean_commissions.png", "plot_lapse_bar")

PlotLapseBar ==
    PlotBar("plot_lapse_bar", "mean_lapses", COUNT_HEADROOM, "mean_lapses.png",
            "graphs_done")

\* the script runs off its end
Finish ==
    /\ pc = "graphs_done"
    /\ pc' = "exited"
    /\ exit_status' = 0
    /\ UNCHANGED <<FunctionVars, argc, fs, conditions, condition_summaries, summaries,
                   stdout, charts, error>>

\* the interpreter ends the process on the uncaught exception
Uncaught ==
    /\ pc = "raised"
    /\ pc' = "exited"
    /\ exit_status' = 1
    /\ UNCHANGED <<FunctionVars, argc, fs, conditions, condition_summaries, summaries,
                   stdout, charts, error>>

Next ==
    \/ Main
    \/ ListSubdirs
    \/ SortConditions
    \/ AnalyzeNext
    \/ ReturnSummaries
    \/ PrintSummaries
    \/ PlotRtBar
    \/ PlotCommissionBar
    \/ PlotLapseBar
    \/ Finish
    \/ Uncaught

Spec == Init /\ [][Next]_vars

(***************************************************************************)
(* SpecCharts: generate_graphs on every bounded summary mapping.           *)
(***************************************************************************)
Summ(mean, commissions, lapses, n) ==
    [mean_of_means     |-> mean,
     total_commissions |-> commissions,
     mean_commissions  |-> Rat(commissions, n),
     total_lapses      |-> lapses,
     mean_lapses       |-> Rat(lapses, n)]

SampleSummaries ==
    {ZeroSummary,
     Summ(Float(300), 3, 1, 2),
     Summ(Float(280), 0, 0, 3),
     Summ(Float(310), 4, 5, 2),
     Summ(Float(295), 1, 0, 1),
     Summ(Rat(773, 3), 5, 2, 3),
     Summ(NaN, 2, 3, 2)}

SampleMappings ==
    {[returned |-> TRUE, items |-> Zip(condition_keys, v)] :
        v \in SeqsUpTo(SampleSummaries, Len(condition_keys))}

InitCharts ==
    /\ FunctionsIdle
    /\ argc = 2
    /\ fs = NoRoot
    /\ pc = "plot_rt_bar"
    /\ conditions = <<>>
    /\ condition_summaries = <<>>
    /\ summaries \in SampleMappings
    /\ stdout = <<>>
    /\ charts = <<>>
    /\ error = NoError
    /\ exit_status = -1

\* generate_graphs(summaries)
NextCharts == PlotRtBar \/ PlotCommissionBar \/ PlotLapseBar

SpecCharts == InitCharts /\ [][NextCharts]_vars

(***************************************************************************)
(* Properties.                                                             *)
(***************************************************************************)
RECURSIVE SumOver(_, _)
\* the sum of f[i] over the indices i in S
SumOver(S, f) ==
    IF S = {} THEN 0
    ELSE LET i == CHOOSE j \in S : TRUE
         IN  f[i] + SumOver(S \ {i}, f)

RECURSIVE FSumOver(_, _)
\* the sum of the floats f[i] over the indices i in S
FSumOver(S, f) ==
    IF S = {} THEN Float(0)
    ELSE LET i == CHOOSE j \in S : TRUE
         IN  FAdd(f[i], FSumOver(S \ {i}, f))

\* the rows of a table whose RT lies in the valid window
InWindow(table) == {i \in 1..Len(table) : table[i].RT >= 100 /\ table[i].RT <= 500}

RTOf(table) == [i \in 1..Len(table) |-> table[i].RT]
CommissionsOf(table) == [i \in 1..Len(table) |-> table[i].Commissions]
LapsesOf(table) == [i \in 1..Len(table) |-> table[i].Lapses]

\* C3: the mean_rt that calculate_trial_metrics returns is the arithmetic mean
\* of the RT of exactly the rows with 100 <= RT <= 500, both ends included; it
\* is not a number when there is no such row.
C3_MeanOverInclusiveWindow ==
    metrics.done =>
        LET V == InWindow(df)
        IN  IF V = {} THEN metrics.value.mean_rt.nan
            ELSE /\ ~metrics.value.mean_rt.nan
                 /\ metrics.value.mean_rt.num * Cardinality(V)
                        = metrics.value.mean_rt.den * SumOver(V, RTOf(df))

\* RT = [90, 150, 450, 600] has given mean_rt = 300
C3_Witness ==
    /\ metrics.done
    /\ RTOf(df) = <<90, 150, 450, 600>>
    /\ metrics.value.mean_rt = Float(300)

\* C4: total_commissions and total_lapses are the sums of the two columns over
\* all rows, whatever their RT, and a table that differs from another in RT
\* values only has the same two totals.
C4_TotalsIgnoreRT ==
    [][/\ metrics'.done =>
            /\ metrics'.value.total_commissions = SumOver(1..Len(df'), CommissionsOf(df'))
            /\ metrics'.value.total_lapses = SumOver(1..Len(df'), LapsesOf(df'))
       /\ (/\ metrics.done
           /\ metrics'.done
           /\ CommissionsOf(df') = CommissionsOf(df)
           /\ LapsesOf(df') = LapsesOf(df)) =>
            /\ metrics'.value.total_commissions = metrics.value.total_commissions
            /\ metrics'.value.total_lapses = metrics.value.total_lapses]_vars

\* the commissions [1, 2, 0, 3] total 6 after the RT of the table were changed
C4_Witness ==
    /\ metrics.done
    /\ CommissionsOf(df) = <<1, 2, 0, 3>>
    /\ RTOf(df) = <<99, 501, 99, 501>>
    /\ metrics.value.total_commissions = 6
    /\ metrics.value.total_lapses = 3

\* the trial files of the directory: its entries named *txt
TrialFilesOf(dir) == {i \in 1..Len(dir) : dir[i].txt}

TrialMetricsOf(dir) == [i \in 1..Len(dir) |-> calculate_trial_metrics(dir[i].rows)]

NoValidRT(f) == InWindow(f.rows) = {}

\* a / b as a float
Quotient(a, b) == Rat(a, b)

\* C5: over n trial files with defined means, the totals are the sums of the
\* per-trial totals and the three means are the sums divided by n; with n = 0
\* all five fields are 0 and nothing is raised.
C5_ConditionAggregates ==
    LET T  == TrialFilesOf(dir_files)
        n  == Cardinality(T)
        m  == TrialMetricsOf(dir_files)
        tc == SumOver(T, [i \in 1..Len(dir_files) |-> m[i].total_commissions])
        tl == SumOver(T, [i \in 1..Len(dir_files) |-> m[i].total_lapses])
        sm == FSumOver(T, [i \in 1..Len(dir_files) |-> m[i].mean_rt])
    IN  (/\ summary.state # "pending"
         /\ \A i \in T : dir_files[i].parses /\ ~NoValidRT(dir_files[i])) =>
            /\ summary.state = "returned"
            /\ summary.value.total_commissions = tc
            /\ summary.value.total_lapses = tl
            /\ n >= 1 =>
                /\ summary.value.mean_of_means = FDivInt(sm, n)
                /\ summary.value.mean_commissions = Quotient(tc, n)
                /\ summary.value.mean_lapses = Quotient(tl, n)
            /\ n = 0 =>
                /\ summary.value.mean_of_means = Float(0)
                /\ summary.value.total_commissions = 0
                /\ summary.value.mean_commissions = Float(0)
                /\ summary.value.total_lapses = 0
                /\ summary.value.mean_lapses = Float(0)

\* three trials with means 300, 140 and 333 and lapses that differ from the
\* commissions
C5_Witness ==
    /\ summary.state = "returned"
    /\ Cardinality(TrialFilesOf(dir_files)) = 3
    /\ summary.value.mean_of_means = Rat(773, 3)
    /\ summary.value.total_commissions = 4
    /\ summary.value.mean_lapses = Rat(2, 3)

\* C8: a trial with no RT in [100, 500] has a not-a-number mean_rt, and a
\* directory holding such a trial has a not-a-number mean_of_means while its
\* totals and count means are the sums and means over all its trials.
C8_UndefinedMeanPropagates ==
    LET T  == TrialFilesOf(dir_files)
        n  == Cardinality(T)
        m  == TrialMetricsOf(dir_files)
        tc == SumOver(T, [i \in 1..Len(dir_files) |-> m[i].total_commissions])
        tl == SumOver(T, [i \in 1..Len(dir_files) |-> m[i].total_lapses])
    IN  /\ \A i \in T : (dir_files[i].parses /\ NoValidRT(dir_files[i])) => m[i].mean_rt = NaN
        /\ (/\ summary.state # "pending"
            /\ \A i \in T : dir_files[i].parses
            /\ \E i \in T : NoValidRT(dir_files[i])) =>
                /\ summary.state = "returned"
                /\ summary.value.mean_of_means = NaN
                /\ summary.value.total_commissions = tc
                /\ summary.value.mean_commissions = Quotient(tc, n)
                /\ summary.value.total_lapses = tl
                /\ summary.value.mean_lapses = Quotient(tl, n)

\* a trial without valid RT beside two trials with valid ones
C8_Witness ==
    /\ summary.state = "returned"
    /\ dir_files = <<TrialA, TrialB, TrialD>>
    /\ summary.value.mean_of_means = NaN
    /\ summary.value.total_commissions = 4
    /\ summary.value.mean_lapses = Rat(1, 3)

\* the analysis of the subdirectory called name
AnalysisOf(name) == analyze_condition(fs.entries[name].files).value

Printed(what) == \E i \in 1..Len(stdout) : stdout[i] = what

\* C1: with exactly the subdirectories a1, b1, a2, b2, in whatever order they
\* are listed, the returned mapping has the keys a1, b1, a2, b2 in that order
\* and each key maps to the analysis of the subdirectory of that name.
C1_FourConditionsByName ==
    (/\ fs.exists
     /\ SubdirNames(fs) = {"a1", "b1", "a2", "b2"}
     /\ summaries.returned) =>
        /\ Keys(summaries.items) = <<"a1", "b1", "a2", "b2">>
        /\ \A i \in 1..Len(summaries.items) :
              summaries.items[i].value = AnalysisOf(summaries.items[i].key)

\* four conditions whose analyses differ from one another where they can
C1_Witness ==
    /\ fs.exists
    /\ SubdirNames(fs) = {"a1", "b1", "a2", "b2"}
    /\ summaries.returned
    /\ Len(summaries.items) = 4
    /\ summaries.items[1].value # summaries.items[2].value
    /\ summaries.items[2].value # summaries.items[3].value
    /\ summaries.items[1].value # summaries.items[3].value

\* C2: with a subdirectory named outside {a1, b1, a2, b2} the run analyses no
\* condition, returns no mapping, prints no summary and writes no chart, and
\* get_condition_summaries ends in the lookup's ValueError.
C2_UnknownNameFailsFirst ==
    (fs.exists /\ SubdirNames(fs) \ {"a1", "b1", "a2", "b2"} # {}) =>
        /\ pc \in {"main", "list_subdirs", "sort", "raised", "exited"}
        /\ condition_summaries = <<>>
        /\ ~summaries.returned
        /\ ~Printed("summaries")
        /\ charts = <<>>
        /\ (argc >= 2 /\ pc \in {"raised", "exited"}) =>
              error = [type |-> "ValueError", at |-> "sort"]

\* the lookup failed beside three canonical directories, one of them readable
C2_Witness ==
    /\ pc = "raised"
    /\ error = [type |-> "ValueError", at |-> "sort"]
    /\ Cardinality(SubdirNames(fs)) = 4
    /\ fs.entries["a1"] = Dir(<<TrialA, Notes>>)
    /\ fs.entries["x"].kind = "dir"

\* C9: with k < 4 subdirectories, all canonically named, the mapping has the
\* first k canonical labels as its keys and its i-th key maps to the analysis
\* of the i-th subdirectory in canonical order.
C9_FewerConditionsByPosition ==
    LET present == {n \in Names : fs.entries[n].kind = "dir"}
        IsPresent(n) == n \in present
        ordered == SelectSeq(<<"a1", "b1", "a2", "b2">>, IsPresent)
        k == Cardinality(present)
    IN  (/\ fs.exists
         /\ present \subseteq {"a1", "b1", "a2", "b2"}
         /\ k < 4
         /\ summaries.returned) =>
            /\ Len(summaries.items) = k
            /\ \A i \in 1..k :
                  /\ summaries.items[i].key = <<"a1", "b1", "a2", "b2">>[i]
                  /\ summaries.items[i].value = AnalysisOf(ordered[i])

\* the subdirectories b1 and b2 under the keys a1 and b1
C9_Witness ==
    /\ summaries.returned
    /\ SubdirNames(fs) = {"b1", "b2"}
    /\ Keys(summaries.items) = <<"a1", "b1">>
    /\ summaries.items[1].value = AnalysisOf("b1")
    /\ summaries.items[2].value = AnalysisOf("b2")
    /\ AnalysisOf("b1") # AnalysisOf("b2")
    /\ AnalysisOf("b1") # AnalysisOf("a1")

\* C6: without the root-directory argument the run prints the usage message
\* and ends with a nonzero exit status, having listed, read, printed and
\* written nothing else.
C6_UsageExitsNonzero ==
    (argc < 2 /\ pc = "exited") =>
        /\ stdout = <<"usage">>
        /\ exit_status # 0
        /\ conditions = <<>>
        /\ condition_summaries = <<>>
        /\ ~summaries.returned
        /\ charts = <<>>

\* C10 as stated: a run in which a step failed has printed no summary and
\* written no chart.
C10_FailureLeavesNothing ==
    error # NoError => ~Printed("summaries") /\ charts = <<>>

ChartFiles == [i \in 1..Len(charts) |-> charts[i].file]

\* what a run has produced when the step named at fails
ProducedBefore(at) ==
    CASE at \in {"list_subdirs", "sort", "analyze_condition"} ->
            stdout = <<>> /\ ~summaries.returned /\ charts = <<>>
      [] at = "plot_rt_bar" ->
            stdout = <<"summaries">> /\ ChartFiles = <<>>
      [] at = "plot_commission_bar" ->
            stdout = <<"summaries">> /\ ChartFiles = <<"mean_rts.png">>
      [] at = "plot_lapse_bar" ->
            /\ stdout = <<"summaries">>
            /\ ChartFiles = <<"mean_rts.png", "mean_commissions.png">>
      [] OTHER -> FALSE

FailureProduced == error # NoError => ProducedBefore(error.at)

\* C10, amended: a failure ends the run, with nothing retried and no later
\* step executed; a failure inside get_condition_summaries leaves nothing
\* printed and no chart written, while a failure in a chart leaves the printed
\* summary and the charts written before it.
C10_FailureIsFatal ==
    [][/\ error # NoError =>
            /\ pc = "raised"
            /\ pc' = "exited"
            /\ exit_status' = 1
            /\ UNCHANGED <<conditions, condition_summaries, summaries, stdout,
                           charts, error>>
       /\ FailureProduced']_vars

\* the second chart failed after the summary was printed and the first written
C10_Witness ==
    /\ pc = "exited"
    /\ exit_status = 1
    /\ error.at = "plot_commission_bar"
    /\ stdout = <<"summaries">>
    /\ ChartFiles = <<"mean_rts.png">>

\* the greatest of a non-empty sequence of defined floats
Greatest(values) ==
    CHOOSE v \in {values[i] : i \in 1..Len(values)} :
        \A i \in 1..Len(values) : ~FGt(values[i], v)

AllDefined(values) == \A i \in 1..Len(values) : ~values[i].nan

AllZero(values) == \A i \in 1..Len(values) : values[i] = Float(0)

FieldOf(file) ==
    CASE file = "mean_rts.png" -> "mean_of_means"
      [] file = "mean_commissions.png" -> "mean_commissions"
      [] file = "mean_lapses.png" -> "mean_lapses"

FieldAt(at) ==
    CASE at = "plot_rt_bar" -> "mean_of_means"
      [] at = "plot_commission_bar" -> "mean_commissions"
      [] at = "plot_lapse_bar" -> "mean_lapses"

\* C7: for a non-empty mapping with defined values each chart's y axis ends
\* at the greatest plotted value plus 50 (RT) or plus 1 (counts), at 1 when
\* every count is zero, and the renderer raises no ValueError.
C7_AxisTopIsMaxPlusHeadroom ==
    /\ \A j \in 1..Len(charts) :
          LET values == Metric(summaries.items, FieldOf(charts[j].file))
              room   == IF charts[j].file = "mean_rts.png" THEN 50 ELSE 1
          IN  (Len(values) > 0 /\ AllDefined(values)) =>
                 /\ charts[j].ylim = FAdd(Greatest(values), Float(room))
                 /\ (room = 1 /\ AllZero(values)) => charts[j].ylim = Float(1)
    /\ error.type = "ValueError" =>
          LET values == Metric(summaries.items, FieldAt(error.at))
          IN  Len(values) = 0 \/ ~AllDefined(values)

\* mean RT of 300, 280, 310 and 295 drawn under an axis that ends at 360
C7_Witness ==
    /\ Len(charts) = 3
    /\ Metric(summaries.items, "mean_of_means")
          = <<Float(300), Float(280), Float(310), Float(295)>>
    /\ charts[1].file = "mean_rts.png"
    /\ charts[1].ylim = Float(360)

====
